---- MODULE Spec2Model ----
(***************************************************************************)
(* A model of the cron job manager of node-cron-best-practices:            *)
(*   src/cron-jobs/jobs.ts   the static registry of job descriptors        *)
(*   src/cron-jobs/index.ts  executeJob (retry-wrapped executor) and       *)
(*                           registerAllCronJobs (registration)            *)
(*   server entry point      the CRON_SERVER gate and app.listen           *)
(*                                                                         *)
(* A "chain" is everything one firing of a cron binding causes: the cron   *)
(* callback, its executeJob invocation with attempt = 1 and the retries    *)
(* that invocation schedules with setTimeout.                              *)
(*                                                                         *)
(* The JavaScript event loop is modelled as far as the code depends on     *)
(* it: a handler runs to its next await atomically; a continuation of an   *)
(* await is a microtask; timers, cron callbacks and the callback of        *)
(* app.listen are macrotasks, each run on its own and only when no         *)
(* continuation of a cron callback is queued.                              *)
(***************************************************************************)
EXTENDS Integers, Sequences, FiniteSets, TLC

\* ---------------------------------------------------------------- bounds
\* Largest retries value of a descriptor.
MaxRetries == 3
\* Most chains (cron callback invocations) in one behaviour.
MaxChains == 2
\* Most calls of registerAllCronJobs by a caller of the library.
MaxRegisterCalls == 2
\* Milliseconds by which one step of the clock advances the timers.
TimeStep == 5000

\* ------------------------------------------------------- optional values
\* An optional value (retries?: number, process.env.X) is a sequence of
\* length 0 (undefined) or 1.
None == << >>
Some(x) == << x >>

\* JavaScript truthiness of an optional number: undefined and 0 are falsy.
TruthyNumber(opt) == Len(opt) = 1 /\ opt[1] # 0

\* JavaScript truthiness of an optional string: undefined and "" are falsy.
TruthyString(opt) == Len(opt) = 1 /\ opt[1] # ""

\* The delay of the retry timer, in milliseconds.
RetryDelay == 10000

Min(a, b) == IF a <= b THEN a ELSE b

\* The values of the retries field the model explores.
RetriesValues == {None} \cup {Some(n) : n \in 0..MaxRetries}

\* The values of process.env.CRON_SERVER the model explores.
EnvValues == {None, Some(""), Some("true")}

\* Names and cron expressions of the registry's descriptors, by position.
JobNames == <<"Process Pending Payments", "Expire Inactive Subscriptions">>
JobSlugs == <<"process-pending-payments", "expire-inactive-subscriptions">>
JobSchedules == <<"0 1 * * *", "0 2 * * *">>

\* A job descriptor (type CronJob). The task closure is represented by its
\* identity, the position of its descriptor; whether an invocation of it
\* fails is decided when the invocation settles.
Descriptor(i, r) ==
    [name |-> JobNames[i], slug |-> JobSlugs[i], schedule |-> JobSchedules[i],
     task |-> i, retries |-> r]

\* The registries the model explores: the first descriptors of jobs.ts,
\* each with any value of retries.
Registries ==
    { [i \in DOMAIN JobNames |-> Descriptor(i, rs[i])] :
        rs \in [DOMAIN JobNames -> RetriesValues] }

VARIABLES
    jobs,       \* the registry (the array jobs of jobs.ts)
    env,        \* process.env.CRON_SERVER
    pc,         \* position of the entry script: "boot", "started", "serving"
    listening,  \* app.listen has been called
    regCalls,   \* number of calls of registerAllCronJobs so far
    bindings,   \* the callbacks given to cron.schedule, in order
    console,    \* lines logged by registration and by the entry script
    ticks,      \* per cron expression, how often wall-clock time matched it
    owed,       \* per binding, the matches whose callback has not run yet
    chains      \* the chains started so far, in order of their start

vars == <<jobs, env, pc, listening, regCalls, bindings, console, ticks, owed, chains>>

\* ------------------------------------------------------------ log lines
\* A line of console output of executeJob; attempt is None for the lines
\* that do not print the attempt number.
Line(kind, name, attempt) == [kind |-> kind, name |-> name, attempt |-> attempt]

\* A variant of the final-failure line that counts the attempt that will
\* not be made.
FinalLine_offByOne(name, k) == Line("final", name, Some(k + 1))

StartLine(name, k)   == Line("start", name, Some(k))
SuccessLine(name)    == Line("success", name, None)
FailedLine(name, k)  == Line("failed", name, Some(k))
RetryingLine(name)   == Line("retrying", name, None)
FinalLine(name, k)   == Line("final", name, Some(k))

\* Number of lines of a kind in a log.
Count(log, kind) == Cardinality({i \in DOMAIN log : log[i].kind = kind})

\* ------------------------------------------------------------- executeJob
\* attempt = 1, the default of executeJob's second parameter.
DefaultAttempt == 1

\* The arguments { name, task, retries } of an executeJob call.
Params(name, task, retries) == [name |-> name, task |-> task, retries |-> retries]

\* Variants of the test, each a slip of the comparison: one attempt too
\* few, and one attempt too many.
ShouldRetry_early(retries, attempt) == TruthyNumber(retries) /\ attempt + 1 < retries[1]
ShouldRetry_inclusive(retries, attempt) == TruthyNumber(retries) /\ attempt <= retries[1]

\* The test of the catch block: retries && attempt < retries.
ShouldRetry(retries, attempt) == TruthyNumber(retries) /\ attempt < retries[1]

\* A variant with a linear backoff: the delay grows with the attempt.
RetryTimer_backoff(params, attempt) ==
    [params |-> params, attempt |-> attempt + 1, delay |-> RetryDelay * attempt,
     elapsed |-> 0]

\* A variant whose closure calls executeJob({ name, task }, attempt + 1),
\* without retries.
RetryTimer_dropsRetries(params, attempt) ==
    [params |-> [params EXCEPT !.retries = None], attempt |-> attempt + 1,
     delay |-> RetryDelay, elapsed |-> 0]

\* The timer setTimeout registers: the closure's captured arguments, the
\* attempt number it will pass, its delay and the time elapsed since it
\* was set.
RetryTimer(params, attempt) ==
    [params |-> params, attempt |-> attempt + 1, delay |-> RetryDelay, elapsed |-> 0]

\* A variant whose timer stays registered once it has fired (setInterval
\* for setTimeout).
ExecuteJobBegin_keepsTimer(ch, params, attempt) ==
    [ch EXCEPT !.params = params,
               !.attempt = attempt,
               !.phase = "running",
               !.log = Append(@, StartLine(params.name, attempt)),
               !.calls = @ + 1,
               !.inv = Append(@, "pending")]

\* executeJob(params, attempt) up to its await: the start line is logged
\* and the task is called; the invocation's promise is pending.
ExecuteJobBegin(ch, params, attempt) ==
    [ch EXCEPT !.params = params,
               !.attempt = attempt,
               !.phase = "running",
               !.timer = None,
               !.log = Append(@, StartLine(params.name, attempt)),
               !.calls = @ + 1,
               !.inv = Append(@, "pending")]

\* A variant that schedules the re-invocation whatever the outcome, as if
\* the setTimeout stood in a finally block.
ExecuteJobSuccess_reschedules(ch) ==
    [ch EXCEPT !.phase = "waiting",
               !.log = Append(@, SuccessLine(ch.params.name)),
               !.timer = Some(RetryTimer(ch.params, ch.attempt)),
               !.timers = @ + 1,
               !.inv[Len(ch.inv)] = "resolved"]

\* The continuation of `await task()` when the task fulfilled: the success
\* line, and the async function returns.
ExecuteJobSuccess(ch) ==
    [ch EXCEPT !.phase = "succeeded",
               !.log = Append(@, SuccessLine(ch.params.name)),
               !.inv[Len(ch.inv)] = "resolved"]

\* A variant whose catch block rethrows once it has given up, as the catch
\* blocks of the tasks of jobs.ts do.
ExecuteJobCatch_rethrows(ch) ==
    LET failed == Append(ch.log, FailedLine(ch.params.name, ch.attempt))
    IN  IF ShouldRetry(ch.params.retries, ch.attempt)
        THEN [ch EXCEPT !.phase = "waiting",
                        !.log = Append(failed, RetryingLine(ch.params.name)),
                        !.timer = Some(RetryTimer(ch.params, ch.attempt)),
                        !.timers = @ + 1,
                        !.inv[Len(ch.inv)] = "resolved"]
        ELSE [ch EXCEPT !.phase = "gaveup",
                        !.log = Append(failed, FinalLine(ch.params.name, ch.attempt)),
                        !.inv[Len(ch.inv)] = "rejected"]

\* A variant that awaits the retry (blocking recursion): the invocation
\* that scheduled a retry stays pending.
ExecuteJobCatch_awaitsRetry(ch) ==
    LET failed == Append(ch.log, FailedLine(ch.params.name, ch.attempt))
    IN  IF ShouldRetry(ch.params.retries, ch.attempt)
        THEN [ch EXCEPT !.phase = "waiting",
                        !.log = Append(failed, RetryingLine(ch.params.name)),
                        !.timer = Some(RetryTimer(ch.params, ch.attempt)),
                        !.timers = @ + 1]
        ELSE [ch EXCEPT !.phase = "gaveup",
                        !.log = Append(failed, FinalLine(ch.params.name, ch.attempt)),
                        !.inv[Len(ch.inv)] = "resolved"]

\* A variant without the else: the final-failure line is logged after
\* every failure, also when a retry has been scheduled.
ExecuteJobCatch_noElse(ch) ==
    LET failed == Append(ch.log, FailedLine(ch.params.name, ch.attempt))
    IN  IF ShouldRetry(ch.params.retries, ch.attempt)
        THEN [ch EXCEPT !.phase = "waiting",
                        !.log = Append(Append(failed, RetryingLine(ch.params.name)),
                                       FinalLine(ch.params.name, ch.attempt)),
                        !.timer = Some(RetryTimer(ch.params, ch.attempt)),
                        !.timers = @ + 1,
                        !.inv[Len(ch.inv)] = "resolved"]
        ELSE [ch EXCEPT !.phase = "gaveup",
                        !.log = Append(failed, FinalLine(ch.params.name, ch.attempt)),
                        !.inv[Len(ch.inv)] = "resolved"]

\* The catch block when the task threw or rejected: the failure line, then
\* either the retry notice and setTimeout, or the final-failure line; the
\* async function returns in both cases.
ExecuteJobCatch(ch) ==
    LET failed == Append(ch.log, FailedLine(ch.params.name, ch.attempt))
    IN  IF ShouldRetry(ch.params.retries, ch.attempt)
        THEN [ch EXCEPT !.phase = "waiting",
                        !.log = Append(failed, RetryingLine(ch.params.name)),
                        !.timer = Some(RetryTimer(ch.params, ch.attempt)),
                        !.timers = @ + 1,
                        !.inv[Len(ch.inv)] = "resolved"]
        ELSE [ch EXCEPT !.phase = "gaveup",
                        !.log = Append(failed, FinalLine(ch.params.name, ch.attempt)),
                        !.inv[Len(ch.inv)] = "resolved"]

\* `await executeJob(...)` in the cron callback: once the promise of the
\* first invocation has settled, the callback's continuation is queued.
AwaitExecuteJob(ch) ==
    IF ch.cb = "awaiting" /\ ch.inv[1] # "pending"
    THEN [ch EXCEPT !.cb = "queued"]
    ELSE ch

\* The cron callback of binding b: async () => { await executeJob({ name,
\* task, retries }) }, run up to its await.
CronCallback(b) ==
    ExecuteJobBegin(
        [binding |-> b, params |-> None, attempt |-> 0, phase |-> "new",
         timer |-> None, cb |-> "awaiting", inv |-> << >>, log |-> << >>,
         calls |-> 0, timers |-> 0],
        Params(bindings[b].name, bindings[b].task, bindings[b].retries),
        DefaultAttempt)

\* No continuation of a cron callback is queued: the microtask queue is
\* empty, so the event loop may run a timer or a cron firing.
NoMicrotask == \A i \in DOMAIN chains : chains[i].cb # "queued"

\* ------------------------------------------------------------ registration
\* A variant whose callback calls executeJob({ name, task }), without the
\* retries of the descriptor.
Binding_withoutRetries(job) ==
    [schedule |-> job.schedule, name |-> job.name, task |-> job.task,
     retries |-> None]

\* What jobs.forEach gives cron.schedule for one descriptor: the
\* expression and a callback that closes over name, task and retries.
Binding(job) ==
    [schedule |-> job.schedule, name |-> job.name, task |-> job.task,
     retries |-> job.retries]

ScheduledLine(job) == [kind |-> "scheduled", name |-> job.name, schedule |-> job.schedule]

\* A variant that registers a descriptor only if it is not bound yet.
RegisterBindings_dedup(bs, js) ==
    bs \o SelectSeq([i \in 1..Len(js) |-> Binding(js[i])],
                    LAMBDA x : \A b \in DOMAIN bs : bs[b] # x)

\* The bindings after registerAllCronJobs: one more per descriptor, in
\* registry order.
RegisterBindings(bs, js) == bs \o [i \in 1..Len(js) |-> Binding(js[i])]

\* The console after registerAllCronJobs: one more line per descriptor.
RegisterLines(con, js) == con \o [i \in 1..Len(js) |-> ScheduledLine(js[i])]

\* A variant that tests whether the variable is defined at all.
GateOpen_defined(e) == Len(e) = 1

\* The timers of the scheduling primitive after registerAllCronJobs: each
\* cron.schedule call starts a timer of its own, which owes no callback yet.
RegisterTimers(ow, bs) == [b \in DOMAIN bs |-> IF b \in DOMAIN ow THEN ow[b] ELSE 0]

\* The gate of the entry script: if (process.env.CRON_SERVER).
GateOpen(e) == TruthyString(e)

\* ------------------------------------------------------------------ Init
TypeOK ==
    /\ jobs \in Registries
    /\ env \in EnvValues
    /\ pc \in {"boot", "started", "serving", "library"}
    /\ listening \in BOOLEAN
    /\ regCalls \in Nat
    /\ \A b \in DOMAIN bindings : \E i \in DOMAIN jobs : bindings[b] = Binding(jobs[i])
    /\ Len(chains) <= MaxChains
    /\ DOMAIN owed = DOMAIN bindings
    /\ \A b \in DOMAIN owed : owed[b] \in 0..MaxChains
    /\ \A i \in DOMAIN chains :
         /\ chains[i].phase \in {"running", "waiting", "succeeded", "gaveup"}
         /\ chains[i].cb \in {"awaiting", "queued", "resolved", "rejected"}
         /\ chains[i].binding \in DOMAIN bindings

InitCommon ==
    /\ jobs \in Registries
    /\ listening = FALSE
    /\ regCalls = 0
    /\ bindings = << >>
    /\ console = << >>
    /\ ticks = [s \in {jobs[i].schedule : i \in DOMAIN jobs} |-> 0]
    /\ owed = << >>
    /\ chains = << >>

\* The process before the entry script has run.
Init ==
    /\ InitCommon
    /\ env \in EnvValues
    /\ pc = "boot"

\* The module cron-jobs/index.ts loaded by some caller of its export, for
\* the registries in which the second descriptor has no retries (as in
\* jobs.ts) or the same retries as the first.
InitLibrary ==
    /\ InitCommon
    /\ jobs[2].retries \in {None, jobs[1].retries}
    /\ env = None
    /\ pc = "library"

\* ---------------------------------------------------------------- actions
\* The entry script, which runs synchronously: the gated registration and
\* its log line, then app.listen.
Main ==
    /\ pc = "boot"
    /\ IF GateOpen(env)
       THEN /\ bindings' = RegisterBindings(bindings, jobs)
            /\ owed' = RegisterTimers(owed, bindings')
            /\ console' = Append(RegisterLines(console, jobs), [kind |-> "registered"])
            /\ regCalls' = regCalls + 1
       ELSE UNCHANGED <<bindings, owed, console, regCalls>>
    /\ listening' = TRUE
    /\ pc' = "started"
    /\ UNCHANGED <<jobs, env, ticks, chains>>

\* The callback given to app.listen, run once the server is listening:
\* the banner line.
ServerListening ==
    /\ pc = "started"
    /\ NoMicrotask
    /\ console' = Append(console, [kind |-> "serverRunning"])
    /\ pc' = "serving"
    /\ UNCHANGED <<jobs, env, listening, regCalls, bindings, ticks, owed, chains>>

\* A caller of the library calls registerAllCronJobs(): a synchronous
\* call, made in any turn, a promise reaction that runs while the
\* continuation of a cron callback is queued included.
RegisterAllCronJobs ==
    /\ pc = "library"
    /\ regCalls < MaxRegisterCalls
    /\ bindings' = RegisterBindings(bindings, jobs)
    /\ owed' = RegisterTimers(owed, bindings')
    /\ console' = RegisterLines(console, jobs)
    /\ regCalls' = regCalls + 1
    /\ UNCHANGED <<jobs, env, pc, listening, ticks, chains>>

\* A variant that skips a binding while a chain it started is still active.
Matching_noOverlap(s) ==
    SelectSeq([b \in DOMAIN bindings |-> b],
              LAMBDA b : /\ bindings[b].schedule = s
                         /\ \A i \in DOMAIN chains :
                              chains[i].binding = b =>
                                chains[i].phase \in {"succeeded", "gaveup"})

\* A variant that runs every callback at every tick, whatever its
\* expression.
Matching_all(s) == [b \in DOMAIN bindings |-> b]

\* The bindings whose cron expression is s, in the order of registration.
Matching(s) == SelectSeq([b \in DOMAIN bindings |-> b], LAMBDA b : bindings[b].schedule = s)

\* The callbacks that are owed and have not run yet.
TotalOwed == Cardinality({<<b, n>> \in (DOMAIN owed) \X (1..MaxChains) : n <= owed[b]})

\* Wall-clock time matches the cron expression s: the timer of every
\* binding with that expression owes a run of its callback. The timers of
\* an earlier match of s have run by then.
ClockMatch(s) ==
    /\ Len(Matching(s)) > 0
    /\ \A k \in 1..Len(Matching(s)) : owed[Matching(s)[k]] = 0
    /\ Len(chains) + TotalOwed + Len(Matching(s)) <= MaxChains
    /\ owed' = [b \in DOMAIN owed |->
                 IF \E k \in 1..Len(Matching(s)) : Matching(s)[k] = b
                 THEN owed[b] + 1 ELSE owed[b]]
    /\ ticks' = [ticks EXCEPT ![s] = @ + 1]
    /\ UNCHANGED <<jobs, env, pc, listening, regCalls, bindings, console, chains>>

\* The timer of binding b runs its callback, in a macrotask of its own:
\* one new chain.
CronFire(b) ==
    /\ NoMicrotask
    /\ owed[b] > 0
    /\ Len(chains) < MaxChains
    /\ chains' = Append(chains, CronCallback(b))
    /\ owed' = [owed EXCEPT ![b] = @ - 1]
    /\ UNCHANGED <<jobs, env, pc, listening, regCalls, bindings, console, ticks>>

\* The task of chain i settles, fulfilled (ok) or rejected, and executeJob
\* resumes after its await.
TaskSettles(i, ok) ==
    /\ chains[i].phase = "running"
    /\ chains' = [chains EXCEPT ![i] =
                    AwaitExecuteJob(IF ok THEN ExecuteJobSuccess(@) ELSE ExecuteJobCatch(@))]
    /\ UNCHANGED <<jobs, env, pc, listening, regCalls, bindings, console, ticks, owed>>

\* The continuation of the cron callback of chain i runs: the callback's
\* promise settles as the awaited promise did.
CallbackResume(i) ==
    /\ chains[i].cb = "queued"
    /\ chains' = [chains EXCEPT ![i].cb = chains[i].inv[1]]
    /\ UNCHANGED <<jobs, env, pc, listening, regCalls, bindings, console, ticks, owed>>

\* Time passes: every pending retry timer has waited TimeStep longer.
AdvanceTime ==
    /\ NoMicrotask
    /\ \E i \in DOMAIN chains :
         chains[i].phase = "waiting" /\ chains[i].timer[1].elapsed < chains[i].timer[1].delay
    /\ chains' = [i \in DOMAIN chains |->
                    IF chains[i].phase = "waiting"
                    THEN [chains[i] EXCEPT !.timer[1].elapsed =
                            Min(@ + TimeStep, chains[i].timer[1].delay)]
                    ELSE chains[i]]
    /\ UNCHANGED <<jobs, env, pc, listening, regCalls, bindings, console, ticks, owed>>

\* The retry timer of chain i fires: () => executeJob({ name, task,
\* retries }, attempt + 1), run up to its await.
TimerFire(i) ==
    /\ NoMicrotask
    /\ chains[i].phase = "waiting"
    /\ chains[i].timer[1].elapsed >= chains[i].timer[1].delay
    /\ chains' = [chains EXCEPT ![i] =
                    ExecuteJobBegin(@, @.timer[1].params, @.timer[1].attempt)]
    /\ UNCHANGED <<jobs, env, pc, listening, regCalls, bindings, console, ticks, owed>>

\* The steps of the executor and of the scheduling primitive.
Run ==
    \/ \E s \in DOMAIN ticks : ClockMatch(s)
    \/ \E b \in DOMAIN bindings : CronFire(b)
    \/ \E i \in DOMAIN chains : \E ok \in BOOLEAN : TaskSettles(i, ok)
    \/ \E i \in DOMAIN chains : CallbackResume(i)
    \/ \E i \in DOMAIN chains : TimerFire(i)
    \/ AdvanceTime

\* The server process.
Next == Main \/ ServerListening \/ Run

Spec == Init /\ [][Next]_vars

\* The library under a caller that registers up to MaxRegisterCalls times.
NextLibrary == RegisterAllCronJobs \/ Run

SpecLibrary == InitLibrary /\ [][NextLibrary]_vars

\* ================================================================ claims
\* The retries value of chain ch as a number: 0 when unset.
RetriesOf(ch) == IF Len(ch.params.retries) = 1 THEN ch.params.retries[1] ELSE 0

\* No attempt of chain ch has succeeded.
EveryAttemptFailed(ch) == Count(ch.log, "success") = 0

\* The attempt numbers of the start lines of a log, in order.
StartAttempts(log) ==
    LET starts == SelectSeq(log, LAMBDA l : l.kind = "start")
    IN  [k \in 1..Len(starts) |-> starts[k].attempt[1]]

\* Some retry timer of chain ch is pending.
TimerPending(ch) == ch.timer # None

\* C1: a chain with retries = R >= 2 whose task fails on every attempt
\* never makes more than R task invocations or R-1 retries, and once its
\* final-failure line is logged it has made exactly R invocations, numbered
\* 1..R, scheduled exactly R-1 retries, logged that line once, and has no
\* task in flight and no timer pending; as the counts never decrease, no
\* retry is scheduled or run afterwards.
C1_AlwaysFailingRunsRTimes ==
    \A i \in DOMAIN chains :
      LET ch == chains[i]
          R  == RetriesOf(ch)
      IN  (R >= 2 /\ EveryAttemptFailed(ch)) =>
            /\ ch.calls <= R
            /\ ch.timers <= R - 1
            /\ Count(ch.log, "final") <= 1
            /\ Count(ch.log, "final") = 1 =>
                 /\ ch.calls = R
                 /\ StartAttempts(ch.log) = [k \in 1..R |-> k]
                 /\ ch.timers = R - 1
                 /\ Count(ch.log, "retrying") = R - 1
                 /\ ch.phase = "gaveup"
                 /\ ~TimerPending(ch)

\* A chain with retries = 3 has given up after three failed attempts.
C1_Witness ==
    \E i \in DOMAIN chains :
      /\ chains[i].params.retries = Some(3)
      /\ chains[i].phase = "gaveup"
      /\ chains[i].calls = 3
      /\ Count(chains[i].log, "failed") = 3

\* C2: a chain whose retries is unset, 0 or 1 and whose first attempt
\* failed has made exactly one task invocation, has scheduled no retry
\* and has logged the final-failure line right after the failure line.
C2_NoRetryForUnsetZeroOne ==
    \A i \in DOMAIN chains :
      LET ch == chains[i]
      IN  (ch.params.retries \in {None, Some(0), Some(1)} /\ Count(ch.log, "failed") >= 1) =>
            /\ ch.calls = 1
            /\ ch.timers = 0
            /\ ~TimerPending(ch)
            /\ ch.phase = "gaveup"
            /\ ch.log = << StartLine(ch.params.name, 1),
                           FailedLine(ch.params.name, 1),
                           FinalLine(ch.params.name, 1) >>

\* A chain with retries = 1 has failed its only attempt.
C2_Witness ==
    \E i \in DOMAIN chains :
      /\ chains[i].params.retries = Some(1)
      /\ Count(chains[i].log, "failed") = 1
      /\ chains[i].phase = "gaveup"

\* C3: a chain whose first attempt succeeded has logged exactly one start
\* line and one success line, no failure, retry or final-failure line, and
\* has scheduled no retry, whatever its retries value.
C3_FirstAttemptSuccess ==
    \A i \in DOMAIN chains :
      LET ch == chains[i]
      IN  (Len(ch.log) >= 2 /\ ch.log[2].kind = "success") =>
            /\ Count(ch.log, "start") = 1
            /\ Count(ch.log, "success") = 1
            /\ Count(ch.log, "failed") = 0
            /\ Count(ch.log, "retrying") = 0
            /\ Count(ch.log, "final") = 0
            /\ ch.calls = 1
            /\ ch.timers = 0
            /\ ~TimerPending(ch)

\* A chain with retries = 3 has succeeded at its first attempt.
C3_Witness ==
    \E i \in DOMAIN chains :
      /\ chains[i].params.retries = Some(3)
      /\ chains[i].phase = "succeeded"
      /\ chains[i].calls = 1

\* C4: a chain with retries = N >= 1 whose task always fails is re-invoked
\* N times after its first failed attempt before it is given up.
C4_RetriesCountsReinvocations ==
    \A i \in DOMAIN chains :
      LET ch == chains[i]
          N  == RetriesOf(ch)
      IN  (N >= 1 /\ EveryAttemptFailed(ch) /\ ch.phase = "gaveup") =>
            ch.calls - 1 = N

\* C5: the promise of every executeJob invocation is pending or resolved,
\* never rejected, and so is the promise of every cron callback.
C5_NeverRejects ==
    \A i \in DOMAIN chains :
      /\ \A k \in DOMAIN chains[i].inv : chains[i].inv[k] \in {"pending", "resolved"}
      /\ chains[i].cb \in {"awaiting", "queued", "resolved"}

\* A chain has given up at a retry attempt, and its callback has returned.
C5_Witness ==
    \E i \in DOMAIN chains :
      /\ chains[i].phase = "gaveup"
      /\ chains[i].attempt >= 2
      /\ chains[i].inv[chains[i].attempt] = "resolved"
      /\ chains[i].cb = "resolved"

\* C6: whenever attempt k+1 of a chain has started, the executeJob
\* invocation of every earlier attempt has returned and so has the cron
\* callback; the callback's continuation is queued as soon as attempt 1 has
\* settled, whatever retry is pending.
C6_FireAndForget ==
    \A i \in DOMAIN chains :
      LET ch == chains[i]
      IN  /\ \A k \in 1..(Len(ch.inv) - 1) : ch.inv[k] = "resolved"
          /\ Len(ch.inv) >= 2 => ch.cb = "resolved"
          /\ TimerPending(ch) => ch.cb \in {"queued", "resolved"}

\* The callback of a chain has returned while its retry timer is pending
\* and not yet due.
C6_Witness ==
    \E i \in DOMAIN chains :
      /\ chains[i].phase = "waiting"
      /\ chains[i].timer[1].elapsed < chains[i].timer[1].delay
      /\ chains[i].cb = "resolved"
      /\ chains[i].attempt = 1

\* The bindings of descriptor j.
BindingsOf(j) == {b \in DOMAIN bindings : bindings[b] = Binding(jobs[j])}

\* The chains started by the bindings of descriptor j.
ChainsOf(j) == {i \in DOMAIN chains : chains[i].binding \in BindingsOf(j)}

\* The 'Scheduled job' lines of descriptor j.
ScheduledLinesOf(j) == {n \in DOMAIN console : console[n] = ScheduledLine(jobs[j])}

\* The chains started by binding b.
StartedBy(b) == {i \in DOMAIN chains : chains[i].binding = b}

\* C7: after exactly one call of registerAllCronJobs every descriptor has
\* exactly one binding and one 'Scheduled job' line, there are no other
\* bindings, and every firing of its schedule has started exactly one
\* chain (or still owes the run of the one callback that starts it), which
\* began with attempt 1 and carries the descriptor's own name, task and
\* retries.
C7_RegisteredOnce ==
    regCalls = 1 =>
      /\ Len(bindings) = Len(jobs)
      /\ \A j \in DOMAIN jobs :
           /\ Cardinality(BindingsOf(j)) = 1
           /\ Cardinality(ScheduledLinesOf(j)) = 1
           /\ \A b \in BindingsOf(j) :
                Cardinality(StartedBy(b)) + owed[b] = ticks[jobs[j].schedule]
           /\ \A i \in ChainsOf(j) :
                /\ chains[i].log[1] = StartLine(jobs[j].name, 1)
                /\ chains[i].params = Params(jobs[j].name, jobs[j].task, jobs[j].retries)

\* After one registration, a job with retries = 2 and a job with no
\* retries have each fired once.
C7_Witness ==
    /\ regCalls = 1
    /\ jobs[1].retries = Some(2)
    /\ jobs[2].retries = None
    /\ \A j \in DOMAIN jobs : ticks[jobs[j].schedule] = 1 /\ Cardinality(ChainsOf(j)) = 1
    /\ \A b \in DOMAIN owed : owed[b] = 0

\* The chains a step adds.
NewChains == {i \in DOMAIN chains' : i \notin DOMAIN chains}

\* C8: after two calls of registerAllCronJobs every descriptor has two
\* bindings, and every tick of a job's schedule starts two chains for it,
\* one per binding: the tick makes each of the two bindings owe one run of
\* its callback and starts nothing else, and each run of a callback starts
\* exactly one chain of its own binding, with attempt 1 and the
\* descriptor's parameters, and settles what that binding owed.
C8_RegisteredTwice ==
    [][ (regCalls = 2 /\ regCalls' = 2) =>
          /\ \A j \in DOMAIN jobs : Cardinality(BindingsOf(j)) = 2
          /\ \A j \in DOMAIN jobs :
               ticks'[jobs[j].schedule] = ticks[jobs[j].schedule] + 1 =>
                 /\ NewChains = {}
                 /\ \A b \in DOMAIN owed :
                      owed'[b] = IF b \in BindingsOf(j) THEN owed[b] + 1 ELSE owed[b]
          /\ Cardinality(NewChains) <= 1
          /\ \A i \in NewChains :
               LET b == chains'[i].binding
               IN  /\ owed[b] > 0
                   /\ \A o \in DOMAIN owed :
                        owed'[o] = IF o = b THEN owed[o] - 1 ELSE owed[o]
                   /\ chains'[i].attempt = 1
                   /\ chains'[i].calls = 1
                   /\ \E j \in DOMAIN jobs :
                        /\ b \in BindingsOf(j)
                        /\ chains'[i].params =
                             Params(jobs[j].name, jobs[j].task, jobs[j].retries) ]_vars

\* After two registrations one tick has started two chains of the same
\* job, of which one has succeeded and the other is waiting to retry.
C8_Witness ==
    /\ regCalls = 2
    /\ Len(chains) = 2
    /\ chains[1].params = chains[2].params
    /\ chains[1].binding # chains[2].binding
    /\ chains[1].phase = "succeeded"
    /\ chains[2].phase = "waiting"
    /\ ticks[bindings[chains[1].binding].schedule] = 1

\* process.env.CRON_SERVER is set and not empty.
CronServerSet == env # None /\ env # Some("")

\* C9: once the entry script has run, registerAllCronJobs has been called
\* (once) if and only if CRON_SERVER is set and not empty, and the server
\* has been started in both cases; while CRON_SERVER is not set, nothing
\* is ever bound and no task is ever executed.
C9_ProcessGating ==
    /\ pc # "boot" => /\ (regCalls = 1) <=> CronServerSet
                      /\ regCalls \in {0, 1}
                      /\ listening
    /\ ~CronServerSet => /\ regCalls = 0
                         /\ bindings = << >>
                         /\ chains = << >>
                         /\ owed = << >>
                         /\ \A s \in DOMAIN ticks : ticks[s] = 0

\* The server has been started with CRON_SERVER set to the empty string.
C9_Witness ==
    /\ env = Some("")
    /\ pc = "serving"
    /\ listening
    /\ bindings = << >>

\* Chain i has an attempt in flight or a retry timer pending.
Active(i) == chains[i].phase \in {"running", "waiting"}

\* The number of bindings whose cron expression is s.
BoundTo(s) == Cardinality({b \in DOMAIN bindings : bindings[b].schedule = s})

\* Every chain can take its next step, every bound schedule can tick and
\* every owed callback can run, whatever the other chains are doing.
C10_Unblocked ==
    /\ \A i \in DOMAIN chains :
         /\ chains[i].phase = "running" =>
              ENABLED TaskSettles(i, TRUE) /\ ENABLED TaskSettles(i, FALSE)
         /\ (chains[i].phase = "waiting" /\ NoMicrotask) =>
              IF chains[i].timer[1].elapsed >= chains[i].timer[1].delay
              THEN ENABLED TimerFire(i)
              ELSE ENABLED AdvanceTime
    /\ \A s \in DOMAIN ticks :
         (/\ BoundTo(s) > 0
          /\ \A b \in DOMAIN bindings : bindings[b].schedule = s => owed[b] = 0
          /\ Len(chains) + TotalOwed + BoundTo(s) <= MaxChains) =>
           ENABLED ClockMatch(s)
    /\ \A b \in DOMAIN bindings :
         (NoMicrotask /\ owed[b] > 0 /\ Len(chains) < MaxChains) =>
           ENABLED CronFire(b)

\* Chain ch without the time its pending timer has waited.
Untimed(ch) == IF TimerPending(ch) THEN [ch EXCEPT !.timer[1].elapsed = 0] ELSE ch

\* A step that starts chains leaves every older chain as it was and starts
\* each new one afresh, and a step of one chain changes no other chain
\* (the passing of time apart, which all pending timers share).
C10_Unaltered ==
    /\ \A i \in DOMAIN chains : NewChains # {} => chains'[i] = chains[i]
    /\ \A i \in NewChains : chains'[i] = CronCallback(chains'[i].binding)
    /\ \A i, k \in DOMAIN chains :
         (i # k /\ Untimed(chains'[i]) # Untimed(chains[i])) =>
           chains'[k] = chains[k]

\* C10: chains of the same job may overlap: a tick of a bound schedule is
\* never prevented by an active chain, a chain is never prevented from
\* proceeding by another chain, and no step of one chain or start of a new
\* chain changes another chain.
C10_OverlapUnprevented == []C10_Unblocked /\ [][C10_Unaltered]_vars

\* A tick has just started a second chain of a job whose first chain is
\* waiting for its retry after a failed attempt.
C10_Witness ==
    /\ Len(chains) = 2
    /\ chains[1].binding = chains[2].binding
    /\ chains[1].phase = "waiting"
    /\ chains[1].attempt = 2
    /\ chains[2].attempt = 1
    /\ chains[2].phase = "running"
    /\ Len(chains[2].log) = 1

\* ------------------------------------------------------------- fairness
\* The server process under the scheduling the event loop guarantees: a
\* task that was started eventually settles, a queued continuation runs,
\* time passes while a timer is pending, a due timer fires, and a cron
\* callback that is owed runs (the entry script registers the jobs once,
\* so there is one binding per descriptor). Nothing obliges wall-clock
\* time to match a cron expression.
Fairness ==
    /\ WF_vars(AdvanceTime)
    /\ \A b \in 1..Len(JobNames) :
         WF_vars(b \in DOMAIN bindings /\ CronFire(b))
    /\ \A i \in 1..MaxChains :
         WF_vars(/\ i \in DOMAIN chains
                 /\ \/ \E ok \in BOOLEAN : TaskSettles(i, ok)
                    \/ CallbackResume(i)
                    \/ TimerFire(i))

\* The server process with CRON_SERVER set, for the registries in which
\* the second descriptor has no retries (as in jobs.ts) or the same
\* retries as the first.
InitFair ==
    /\ Init
    /\ GateOpen(env)
    /\ jobs[2].retries \in {None, jobs[1].retries}

SpecFair == InitFair /\ [][Next]_vars /\ Fairness

\* The larger of two numbers.
Max(a, b) == IF a >= b THEN a ELSE b

\* Chain i has reached the success outcome or the final-failure outcome.
Terminated(i) == i \in DOMAIN chains /\ chains[i].phase \in {"succeeded", "gaveup"}

\* No chain has made more than max(1, retries) task invocations.
C11_AttemptsBounded ==
    \A i \in DOMAIN chains : chains[i].calls <= Max(1, RetriesOf(chains[i]))

\* C11: if every task invocation eventually settles and every pending
\* retry timer eventually fires, every chain that was started eventually
\* reaches the success outcome or the final-failure outcome, and it never
\* makes more than max(1, retries) task invocations.
C11_EveryChainTerminates ==
    /\ []C11_AttemptsBounded
    /\ \A i \in 1..MaxChains : (i \in DOMAIN chains) ~> Terminated(i)

\* A chain has given up after as many invocations as its retries value
\* allows, having waited for its retry timers.
C11_Witness ==
    \E i \in DOMAIN chains :
      /\ Terminated(i)
      /\ chains[i].calls = MaxRetries
      /\ chains[i].calls = RetriesOf(chains[i])

\* Every pending retry timer has the same delay, 10000 ms, whatever the
\* job and the attempt, and has not waited longer than that.
C12_SameDelay ==
    \A i \in DOMAIN chains :
      TimerPending(chains[i]) =>
        /\ chains[i].timer[1].delay = 10000
        /\ chains[i].timer[1].elapsed \in 0..10000

\* A timer starts to wait when the attempt fails, and the next attempt of
\* a chain starts only when its timer has waited 10000 ms.
C12_NotEarlier ==
    \A i \in DOMAIN chains :
      /\ (~TimerPending(chains[i]) /\ TimerPending(chains'[i])) =>
           /\ chains'[i].timer[1].elapsed = 0
           /\ chains'[i].log[Len(chains'[i].log) - 1] =
                FailedLine(chains[i].params.name, chains[i].attempt)
      /\ chains'[i].calls > chains[i].calls =>
           /\ TimerPending(chains[i])
           /\ chains[i].timer[1].elapsed >= 10000

\* C12: the retry delay is fixed: attempt k+1 of a chain starts no earlier
\* than 10000 ms after the failure of attempt k, and the delay is the same
\* constant for every retry of every job.
C12_FixedDelay == []C12_SameDelay /\ [][C12_NotEarlier]_vars

\* A chain runs its third attempt while the timer another chain set after
\* its first failure has waited for part of its delay.
C12_Witness ==
    \E i, k \in DOMAIN chains :
      /\ chains[i].attempt = 3
      /\ chains[i].phase = "running"
      /\ chains[k].phase = "waiting"
      /\ chains[k].attempt = 1
      /\ chains[k].timer[1].elapsed > 0
      /\ chains[k].timer[1].elapsed < chains[k].timer[1].delay

\* C13: a chain that has logged a success after k task invocations has
\* failed attempts 1..k-1 and scheduled k-1 retries, k is at most
\* max(1, retries), the success line is its last line and its only one,
\* it has logged no final-failure line, and it has no attempt in flight
\* and no timer pending: nothing is scheduled after the success.
C13_StopsAtFirstSuccess ==
    \A i \in DOMAIN chains :
      LET ch == chains[i]
          k  == ch.calls
      IN  Count(ch.log, "success") >= 1 =>
            /\ Count(ch.log, "success") = 1
            /\ ch.log[Len(ch.log)].kind = "success"
            /\ ch.phase = "succeeded"
            /\ ch.attempt = k
            /\ k <= Max(1, RetriesOf(ch))
            /\ StartAttempts(ch.log) = [n \in 1..k |-> n]
            /\ Count(ch.log, "failed") = k - 1
            /\ Count(ch.log, "retrying") = k - 1
            /\ ch.timers = k - 1
            /\ Count(ch.log, "final") = 0
            /\ ~TimerPending(ch)

\* A chain with retries = 3 has succeeded at its second attempt, one
\* attempt before its budget was used up.
C13_Witness ==
    \E i \in DOMAIN chains :
      /\ chains[i].params.retries = Some(3)
      /\ chains[i].phase = "succeeded"
      /\ chains[i].calls = 2
      /\ chains[i].timers = 1

\* The number of terminal lines (success or final failure) of a log.
Outcomes(log) == Count(log, "success") + Count(log, "final")

\* C14: a chain has logged at most one terminal line, success or final
\* failure, and once it has logged one it has no attempt in flight and no
\* retry timer pending; as the log only grows, this holds ever after.
C14_OneTerminalOutcome ==
    \A i \in DOMAIN chains :
      LET ch == chains[i]
      IN  /\ Outcomes(ch.log) <= 1
          /\ Outcomes(ch.log) = 1 =>
               /\ ch.phase \in {"succeeded", "gaveup"}
               /\ ~TimerPending(ch)
               /\ \A n \in DOMAIN ch.inv : ch.inv[n] # "pending"
               /\ ch.log[Len(ch.log)].kind \in {"success", "final"}
          /\ ch.phase \in {"succeeded", "gaveup"} => Outcomes(ch.log) = 1

\* Two chains of one job have ended differently: one succeeded at a retry
\* and the other gave up.
C14_Witness ==
    \E i, k \in DOMAIN chains :
      /\ chains[i].binding = chains[k].binding
      /\ chains[i].phase = "succeeded"
      /\ chains[i].calls >= 2
      /\ chains[k].phase = "gaveup"
      /\ chains[k].calls >= 2

\* C15: a retry changes only the attempt counter: a pending timer carries
\* the chain's own name, task and retries and the next attempt number; a
\* chain keeps the parameters of its binding; its attempts are numbered
\* 1, 2, 3, ... without gap or repetition; and its attempt number never
\* exceeds max(1, retries).
C15_RetryChangesOnlyAttempt ==
    \A i \in DOMAIN chains :
      LET ch == chains[i]
          b  == bindings[ch.binding]
      IN  /\ ch.params = Params(b.name, b.task, b.retries)
          /\ TimerPending(ch) =>
               /\ ch.timer[1].params = ch.params
               /\ ch.timer[1].attempt = ch.attempt + 1
          /\ StartAttempts(ch.log) = [n \in 1..ch.calls |-> n]
          /\ ch.attempt = ch.calls
          /\ ch.attempt <= Max(1, RetriesOf(ch))

\* A chain with retries = 3 runs its third attempt.
C15_Witness ==
    \E i \in DOMAIN chains :
      /\ chains[i].params.retries = Some(3)
      /\ chains[i].attempt = 3
      /\ chains[i].phase = "running"
      /\ StartAttempts(chains[i].log) = <<1, 2, 3>>

\* The number of executeJob invocations of chain ch that await their task.
InFlight(ch) == Cardinality({n \in DOMAIN ch.inv : ch.inv[n] = "pending"})

\* The number of timers chain ch has set and that have not fired: every
\* attempt after the first was started by one.
TimersNotFired(ch) == ch.timers - (ch.calls - 1)

\* C16: a chain has at most one task invocation in flight and at most one
\* retry timer pending, never both at once, and every attempt after the
\* first follows the failure line of the attempt before it.
C16_StrictlySequential ==
    \A i \in DOMAIN chains :
      LET ch == chains[i]
      IN  /\ InFlight(ch) <= 1
          /\ TimersNotFired(ch) \in {0, 1}
          /\ TimersNotFired(ch) = 1 <=> TimerPending(ch)
          /\ InFlight(ch) + TimersNotFired(ch) <= 1
          /\ InFlight(ch) = 1 <=> ch.phase = "running"
          /\ \A p \in DOMAIN ch.log :
               (ch.log[p].kind = "start" /\ ch.log[p].attempt[1] > 1) =>
                 /\ p > 2
                 /\ ch.log[p - 1].kind = "retrying"
                 /\ ch.log[p - 2] = FailedLine(ch.params.name, ch.log[p].attempt[1] - 1)

\* A chain awaits the task of its second attempt, its timer having fired.
C16_Witness ==
    \E i \in DOMAIN chains :
      /\ chains[i].attempt = 2
      /\ chains[i].phase = "running"
      /\ InFlight(chains[i]) = 1
      /\ chains[i].timers = 1

\* The timer of chain i is still pending after the step, as it was set,
\* and the chain has made no further attempt.
TimerKept(i) ==
    /\ TimerPending(chains'[i])
    /\ chains'[i].timer[1].params = chains[i].timer[1].params
    /\ chains'[i].timer[1].attempt = chains[i].timer[1].attempt
    /\ chains'[i].timer[1].delay = chains[i].timer[1].delay
    /\ chains'[i].timer[1].elapsed >= chains[i].timer[1].elapsed
    /\ chains'[i].calls = chains[i].calls
    /\ chains'[i].log = chains[i].log
    /\ chains'[i].phase = "waiting"

\* The timer of chain i has fired in the step: it is cleared and exactly
\* one new attempt of the chain has started, with the timer's arguments.
TimerFired(i) ==
    /\ ~TimerPending(chains'[i])
    /\ chains[i].timer[1].elapsed >= chains[i].timer[1].delay
    /\ chains'[i].calls = chains[i].calls + 1
    /\ chains'[i].attempt = chains[i].timer[1].attempt
    /\ chains'[i].params = chains[i].timer[1].params
    /\ chains'[i].phase = "running"
    /\ chains'[i].log = Append(chains[i].log,
                               StartLine(chains[i].timer[1].params.name,
                                         chains[i].timer[1].attempt))

\* No step removes a pending timer except its firing.
C17_NotCancelled ==
    \A i \in DOMAIN chains :
      TimerPending(chains[i]) => (i \in DOMAIN chains' /\ (TimerKept(i) \/ TimerFired(i)))

\* Every timer a chain has set has fired once or is the pending one.
C17_RunOnce ==
    \A i \in DOMAIN chains :
      chains[i].timers = (chains[i].calls - 1) + (IF TimerPending(chains[i]) THEN 1 ELSE 0)

\* C17: every scheduled retry is run exactly once and cannot be
\* cancelled: whatever else happens (ticks, steps of other chains, another
\* registration), a pending timer stays pending until it fires, and its
\* firing starts exactly one new attempt of its chain.
C17_RetryRunsOnce == []C17_RunOnce /\ [][C17_NotCancelled]_vars

\* After a second registration of the jobs, a chain runs the attempt its
\* timer started while the timer of another chain is pending.
C17_Witness ==
    /\ regCalls = 2
    /\ \E i, k \in DOMAIN chains :
         /\ chains[i].attempt = 2
         /\ chains[i].phase = "running"
         /\ chains[i].timers = 1
         /\ chains[k].phase = "waiting"

\* The job a chain belongs to.
JobOf(ch) == ch.params.name

\* The outcomes of the settled attempts of a log, in order.
OutcomesOf(log) ==
    LET settled == SelectSeq(log, LAMBDA l : l.kind \in {"success", "failed"})
    IN  [n \in 1..Len(settled) |-> settled[n].kind]

\* A step that touches a chain leaves the registry and the bindings as
\* they were; a tick makes the bindings of the ticking job only owe a run
\* and leaves the chains as they were; a chain is started only by a
\* binding that owes a run, and leaves the older chains as they were; a
\* step of a chain of one job leaves the chains of every other job as
\* they were.
C18_Frame ==
    /\ jobs' = jobs
    /\ chains' # chains => bindings' = bindings
    /\ \A s \in DOMAIN ticks :
         ticks'[s] > ticks[s] =>
           /\ \A b \in DOMAIN owed :
                owed'[b] # owed[b] => bindings[b].schedule = s
           /\ chains' = chains
           /\ \A o \in DOMAIN ticks : o # s => ticks'[o] = ticks[o]
    /\ \A i \in NewChains :
         /\ owed[chains'[i].binding] > 0
         /\ ticks[bindings[chains'[i].binding].schedule] > 0
         /\ \A k \in DOMAIN chains : chains'[k] = chains[k]
    /\ \A i, k \in DOMAIN chains :
         (JobOf(chains[i]) # JobOf(chains[k])
            /\ Untimed(chains'[i]) # Untimed(chains[i])) =>
           chains'[k] = chains[k]

\* What a chain has done is a function of its retries value and of the
\* outcomes of its own attempts: chains that agree on both have scheduled
\* as many retries and have both ended or both not.
C18_OwnOutcomes ==
    \A i, k \in DOMAIN chains :
      (chains[i].params.retries = chains[k].params.retries
         /\ OutcomesOf(chains[i].log) = OutcomesOf(chains[k].log)) =>
        /\ chains[i].timers = chains[k].timers
        /\ Terminated(i) <=> Terminated(k)
        /\ Count(chains[i].log, "final") = Count(chains[k].log, "final")

\* C18: jobs are independent: no tick, attempt, failure, retry or final
\* failure of a job changes a chain of another job, the registry or the
\* bindings, and what a chain does depends only on its own task outcomes
\* and its own retries value.
C18_JobsIndependent == []C18_OwnOutcomes /\ [][C18_Frame]_vars

\* Chains of two jobs with different retries values have each failed
\* twice: one has given up, the other waits for its third attempt.
C18_Witness ==
    \E i, k \in DOMAIN chains :
      /\ JobOf(chains[i]) # JobOf(chains[k])
      /\ chains[i].params.retries = Some(2)
      /\ chains[i].phase = "gaveup"
      /\ chains[k].params.retries = Some(3)
      /\ chains[k].phase = "waiting"
      /\ chains[k].attempt = 2

\* C19: in the log of a chain, the start line of attempt k is there as
\* soon as the task of attempt k is invoked and is followed by exactly one
\* of the success line (which prints no attempt number) and the failure
\* line of attempt k; a failure line is followed by exactly one of the
\* retry notice and the final-failure line; nothing follows a success or
\* final-failure line; and the attempt count of the final-failure line is
\* the number of task invocations the chain has made.
C19_LogOrdering ==
    \A i \in DOMAIN chains :
      LET ch   == chains[i]
          log  == ch.log
          last == Len(log)
      IN  /\ Count(log, "start") = ch.calls
          /\ log[1] = StartLine(ch.params.name, 1)
          /\ InFlight(ch) = 1 <=> log[last].kind = "start"
          /\ \A p \in DOMAIN log :
               /\ log[p].name = ch.params.name
               /\ log[p].kind = "start" =>
                    /\ p = last \/ log[p + 1].kind \in {"success", "failed"}
                    /\ (p < last /\ log[p + 1].kind = "failed") =>
                         log[p + 1].attempt = log[p].attempt
                    /\ log[p].attempt = Some(Cardinality({q \in 1..p : log[q].kind = "start"}))
               /\ log[p].kind = "success" =>
                    /\ p = last
                    /\ log[p - 1].kind = "start"
                    /\ log[p].attempt = None
               /\ log[p].kind = "failed" =>
                    /\ log[p - 1].kind = "start"
                    /\ p < last
                    /\ log[p + 1].kind \in {"retrying", "final"}
                    /\ log[p + 1].kind = "final" => log[p + 1].attempt = log[p].attempt
               /\ log[p].kind = "retrying" =>
                    /\ log[p - 1].kind = "failed"
                    /\ p = last \/ log[p + 1].kind = "start"
               /\ log[p].kind = "final" =>
                    /\ p = last
                    /\ log[p - 1].kind = "failed"
                    /\ log[p].attempt = Some(ch.calls)

\* A chain has logged its final failure after three attempts and two
\* retry notices.
C19_Witness ==
    \E i \in DOMAIN chains :
      /\ Len(chains[i].log) = 9
      /\ chains[i].log[9] = FinalLine(chains[i].params.name, 3)
      /\ chains[i].log[6].kind = "retrying"
      /\ chains[i].calls = 3

====
